---- MODULE Spec2Model ----
(***************************************************************************)
(* Model of the persistent multi-service supervisor                        *)
(* (deployment/ultimate_persistent_system.py, class                        *)
(* UltimatePersistentSystem): the process map, the restart counters, the   *)
(* periodic health-check / auto-patch / report activities of               *)
(* run_persistent_loop, the shutdown sequence, and the environment the     *)
(* supervisor talks to (HTTP probes, process launch and termination,       *)
(* resource sampling, termination signals).                                *)
(*                                                                         *)
(* The control position of run_persistent_loop is `pc`; every loop over    *)
(* the services advances one service per step (`idx`).  Sleeps are not     *)
(* modelled: the counters of the loop count iterations, not seconds.       *)
(*                                                                         *)
(* Two further programs of the deployment directory have their own         *)
(* variables and their own specification: the agent monitor                *)
(* (deployment/monitor_agents.py, class AgentMonitor; MonitorSpec) and the *)
(* multi-system orchestrator (deployment/multi_system_orchestrator.py,     *)
(* class MultiSystemOrchestrator; OrchestratorSpec).  Each specification   *)
(* runs one program and holds the variables of the other two still.        *)
(***************************************************************************)
EXTENDS Integers, Sequences, FiniteSets, TLC

VARIABLES
    cfg,                   \* self.config['services']: name -> critical, restart_on_failure, max_restarts
    flaky,                 \* the service whose process and port misbehave in this run
    processes,             \* keys of self.processes (services with a tracked Popen handle)
    alive,                 \* tracked handles whose process is running (poll() is None)
    orphaned,              \* services with a launched process that is running but no longer tracked
    restart_counts,        \* self.restart_counts, read with .get(name, 0)
    running,               \* self.running
    pc,                    \* position in run_persistent_loop
    idx,                   \* position of the current for-loop over the services
    pending,               \* list(self.processes.keys()) taken by the shutdown loop
    health,                \* health['services'] of check_system_health
    report,                \* health['overall_status'] and health['issues'] of check_system_health
    probe,                 \* the last _check_service_health call: service, answer, verdict
    health_check_counter,
    auto_patch_counter,
    monitor_counter,
    patches_applied,       \* local of auto_patch_system
    mem_sample,            \* <<mem_percent>> once auto_patch_system has sampled, else <<>>
    gc_collections,        \* gc.collect() calls of the running auto_patch_system
    log,                   \* calls and signals issued since the loop iteration began
    health_cycle_done,     \* history: a health-check cycle has run to its end
    resignalled            \* history: a signal has arrived with self.running already False

\* AgentMonitor (monitor_agents.py)
VARIABLES
    agents,                \* self.agents: name -> status, last_check, failures
    mon_pc,                \* position in monitor_loop / run_single_check
    mon_idx,               \* position of the for-loop over self.agents
    cycle,                 \* health-check cycles begun
    alerts,                \* agents the current cycle has logged the critical alert for
    status_file,           \* logs/agent_status.json as save_status last wrote it
    checks                 \* history: per agent, the outcome (healthy or not) of every check

monitor_vars == <<agents, mon_pc, mon_idx, cycle, alerts, status_file, checks>>

\* MultiSystemOrchestrator (multi_system_orchestrator.py)
VARIABLES
    enabled,               \* self.config[system]['enabled']
    sys_processes,         \* self.processes, as the sequence of its keys in insertion order
    sys_launched,          \* history: systems for which Popen has launched a process
    sys_alive,             \* systems whose launched process is running
    orch_pc,               \* position in orchestrate
    orch_pending,          \* the items of self.processes the loop of shutdown has yet to visit
    terminate_calls,       \* history: systems whose process.terminate() has been called
    kill_calls,            \* history: systems whose process.kill() has been called
    shutdown_runs,         \* history: calls of shutdown()
    leaving                \* what left the try body of orchestrate: nothing, an Exception, a KeyboardInterrupt

orchestrator_vars == <<enabled, sys_processes, sys_launched, sys_alive, orch_pc, orch_pending,
                       terminate_calls, kill_calls, shutdown_runs, leaving>>

supervisor_vars == <<cfg, flaky, processes, alive, orphaned, restart_counts, running, pc, idx,
                     pending, health, report, probe, health_check_counter, auto_patch_counter,
                     monitor_counter, patches_applied, mem_sample, gc_collections, log,
                     health_cycle_done, resignalled>>

vars == <<cfg, flaky, processes, alive, orphaned, restart_counts, running, pc, idx, pending,
          health, report, probe, health_check_counter, auto_patch_counter, monitor_counter,
          patches_applied, mem_sample, gc_collections, log, health_cycle_done,
          resignalled, monitor_vars, orchestrator_vars>>

(***************************************************************************)
(* Bounds of the model.                                                    *)
(***************************************************************************)
\* restart_counts is unbounded in the program; a restart is explored only below this count.
MaxRestartCount == 3

(***************************************************************************)
(* Configuration (KINGDOM_CONFIG).                                         *)
(***************************************************************************)
health_check_interval == 10
auto_patch_interval == 60
resource_monitor_interval == 30
\* float('inf') of max_restarts
Unbounded == -1
\* mem_percent > 90
MemoryThreshold == 90

\* start_all_services: the dependency order; every service of it is configured.
service_order == <<"terminal_agent", "sdk_agent", "orchestrator", "interface">>

Services == {service_order[i] : i \in DOMAIN service_order}

\* The entry every service has in the shipped KINGDOM_CONFIG.
ShippedService == [critical |-> TRUE, restart_on_failure |-> TRUE, max_restarts |-> Unbounded]

\* The other entries the configuration table admits for a service.
VariantServices ==
    { [critical |-> TRUE, restart_on_failure |-> TRUE, max_restarts |-> 2],
      [critical |-> FALSE, restart_on_failure |-> TRUE, max_restarts |-> Unbounded],
      [critical |-> TRUE, restart_on_failure |-> FALSE, max_restarts |-> Unbounded] }

\* The configurations explored with service f misbehaving: the shipped one, and those
\* with the entry of f changed.
KingdomConfigs(f) ==
    { c \in [Services -> {ShippedService} \cup VariantServices] :
        \A s \in Services \ {f} : c[s] = ShippedService }

(***************************************************************************)
(* The environment's answers.                                              *)
(***************************************************************************)
HttpStatuses == {200, 404, 500}
RequestErrors == {"refused", "timeout", "error"}
NotRequested == "not_requested"

\* How a service answers one probe: GET /health, and GET / when that is requested.
\* An answer is an HTTP status (requests.get returns) or a request error (it raises).
ProbeResponses ==
    { [health_path |-> <<"status", h>>, root_path |-> <<NotRequested, 0>>] : h \in HttpStatuses }
    \cup
    { [health_path |-> <<"raises", e>>, root_path |-> <<"status", r>>] :
        e \in RequestErrors, r \in HttpStatuses }
    \cup
    { [health_path |-> <<"raises", e>>, root_path |-> <<"raises", f>>] :
        e \in RequestErrors, f \in RequestErrors }

StopOutcomes == {"terminated", "killed", "terminate_raises", "kill_raises"}
StartOutcomes == {"running", "exited", "raises"}
MemSamples == {50, 90, 91, 95}

\* A run explores the faults of one service; the others answer 200 on /health, start,
\* keep running and exit on SIGTERM.
ProbeAnswers(s) ==
    IF s = flaky THEN ProbeResponses
    ELSE {[health_path |-> <<"status", 200>>, root_path |-> <<NotRequested, 0>>]}

StopAnswers(s) == IF s = flaky THEN StopOutcomes ELSE {"terminated"}

StartAnswers(s) == IF s = flaky THEN StartOutcomes ELSE {"running"}

NoProbe == [service |-> "none", response |-> "none", healthy |-> FALSE]
Unprobed == [s \in Services |-> "unprobed"]

\* The health dict as check_system_health creates it.
NoReport == [overall_status |-> "healthy", issues |-> <<>>]

\* The entry check_system_health adds to health['issues'] for service s.
Issue(s) == [svc |-> s, issue |-> "unhealthy"]

(***************************************************************************)
(* _check_service_health: the verdict on one probe.                        *)
(***************************************************************************)
IsStatus(answer, codes) == answer[1] = "status" /\ answer[2] \in codes

CheckServiceHealth(r) ==
    IF r.health_path[1] = "status"
    THEN IsStatus(r.health_path, {200})
    ELSE IsStatus(r.root_path, {200, 404})

Verdict(h) == IF h THEN "healthy" ELSE "unhealthy"

(***************************************************************************)
(* start_service, stop_service, restart_service as functions of the        *)
(* supervisor's maps and of the environment's outcome.                     *)
(***************************************************************************)
Call(op, s) == [op |-> op, svc |-> s]

\* stop_service without its first test: the lookup of the missing key raises inside the
\* try, and the except clause returns False.
StopService_NoEarlyReturn(p, a, s, o) ==
    IF s \notin p
    THEN [processes |-> p, alive |-> a, ok |-> FALSE, log |-> <<Call("stop", s)>>]
    ELSE IF s \notin a
    THEN [processes |-> p \ {s}, alive |-> a, ok |-> TRUE, log |-> <<Call("stop", s)>>]
    ELSE IF o = "terminated"
    THEN [processes |-> p \ {s}, alive |-> a \ {s}, ok |-> TRUE,
          log |-> <<Call("stop", s), Call("SIGTERM", s)>>]
    ELSE IF o = "killed"
    THEN [processes |-> p \ {s}, alive |-> a \ {s}, ok |-> TRUE,
          log |-> <<Call("stop", s), Call("SIGTERM", s), Call("SIGKILL", s)>>]
    ELSE IF o = "terminate_raises"
    THEN [processes |-> p, alive |-> a, ok |-> FALSE, log |-> <<Call("stop", s)>>]
    ELSE [processes |-> p, alive |-> a, ok |-> FALSE,
          log |-> <<Call("stop", s), Call("SIGTERM", s)>>]

\* stop_service that kills after the wait without looking at the process again.
StopService_KillsAlways(p, a, s, o) ==
    IF s \notin p
    THEN [processes |-> p, alive |-> a, ok |-> TRUE,
          log |-> <<Call("stop", s), Call("no_handle", s)>>]
    ELSE IF s \notin a
    THEN [processes |-> p \ {s}, alive |-> a, ok |-> TRUE, log |-> <<Call("stop", s)>>]
    ELSE IF o \in {"terminated", "killed"}
    THEN [processes |-> p \ {s}, alive |-> a \ {s}, ok |-> TRUE,
          log |-> <<Call("stop", s), Call("SIGTERM", s), Call("SIGKILL", s)>>]
    ELSE IF o = "terminate_raises"
    THEN [processes |-> p, alive |-> a, ok |-> FALSE, log |-> <<Call("stop", s)>>]
    ELSE [processes |-> p, alive |-> a, ok |-> FALSE,
          log |-> <<Call("stop", s), Call("SIGTERM", s)>>]

\* stop_service(s) on process map p, running set a; o is what the process does.
\* The log lists the call, the early return ("no_handle") and the signals sent.
StopService(p, a, s, o) ==
    IF s \notin p
    THEN [processes |-> p, alive |-> a, ok |-> TRUE,
          log |-> <<Call("stop", s), Call("no_handle", s)>>]
    ELSE IF s \notin a
    THEN [processes |-> p \ {s}, alive |-> a, ok |-> TRUE, log |-> <<Call("stop", s)>>]
    ELSE IF o = "terminated"
    THEN [processes |-> p \ {s}, alive |-> a \ {s}, ok |-> TRUE,
          log |-> <<Call("stop", s), Call("SIGTERM", s)>>]
    ELSE IF o = "killed"
    THEN [processes |-> p \ {s}, alive |-> a \ {s}, ok |-> TRUE,
          log |-> <<Call("stop", s), Call("SIGTERM", s), Call("SIGKILL", s)>>]
    ELSE IF o = "terminate_raises"
    THEN [processes |-> p, alive |-> a, ok |-> FALSE, log |-> <<Call("stop", s)>>]
    ELSE [processes |-> p, alive |-> a, ok |-> FALSE,
          log |-> <<Call("stop", s), Call("SIGTERM", s)>>]

\* start_service(s) on process map p, running set a, orphans q; o is what the launch does.
StartService(p, a, q, s, o) ==
    IF o = "raises"
    THEN [processes |-> p, alive |-> a, orphaned |-> q, ok |-> FALSE,
          log |-> <<Call("start", s)>>]
    ELSE [processes |-> p \cup {s},
          alive |-> IF o = "running" THEN a \cup {s} ELSE a \ {s},
          orphaned |-> IF s \in a THEN q \cup {s} ELSE q,
          ok |-> o = "running",
          log |-> <<Call("start", s)>>]

\* restart_service that stops and counts but never starts the service again.
RestartService_NoStart(p, a, q, rc, s, so, go) ==
    LET stopped == StopService(p, a, s, so)
    IN  [processes |-> stopped.processes,
         alive |-> stopped.alive,
         orphaned |-> q,
         restart_counts |-> [rc EXCEPT ![s] = rc[s] + 1],
         ok |-> FALSE,
         log |-> <<Call("restart", s)>> \o stopped.log]

\* restart_service that counts only the restarts whose start succeeded.
RestartService_CountsSuccess(p, a, q, rc, s, so, go) ==
    LET stopped == StopService(p, a, s, so)
        started == StartService(stopped.processes, stopped.alive, q, s, go)
    IN  [processes |-> started.processes,
         alive |-> started.alive,
         orphaned |-> started.orphaned,
         restart_counts |-> IF started.ok THEN [rc EXCEPT ![s] = rc[s] + 1] ELSE rc,
         ok |-> started.ok,
         log |-> <<Call("restart", s)>> \o stopped.log \o started.log]

\* restart_service(s): stop, count, start.
RestartService(p, a, q, rc, s, so, go) ==
    LET stopped == StopService(p, a, s, so)
        started == StartService(stopped.processes, stopped.alive, q, s, go)
    IN  [processes |-> started.processes,
         alive |-> started.alive,
         orphaned |-> started.orphaned,
         restart_counts |-> [rc EXCEPT ![s] = rc[s] + 1],
         ok |-> started.ok,
         log |-> <<Call("restart", s)>> \o stopped.log \o started.log]

(***************************************************************************)
(* run_persistent_loop: which activity the iteration turns to next.        *)
(***************************************************************************)
AfterPatch(mon) ==
    IF mon >= resource_monitor_interval THEN "report_probe" ELSE "sleep"

AfterHealth(ap, mon) ==
    IF ap >= auto_patch_interval THEN "patch_heal" ELSE AfterPatch(mon)

\* A health-check test written `>` instead of `>=`.
AfterLoopTest_Late(hc, ap, mon) ==
    IF hc > health_check_interval THEN "health_probe" ELSE AfterHealth(ap, mon)

AfterLoopTest(hc, ap, mon) ==
    IF hc >= health_check_interval THEN "health_probe" ELSE AfterHealth(ap, mon)

LastService == idx = Len(service_order)

(***************************************************************************)
(* The agent monitor and the orchestrator as their constructors leave      *)
(* them, and the same with the program not run.                            *)
(***************************************************************************)
agent_order == <<"Terminal Agent", "SDK Agent">>
Agents == {agent_order[i] : i \in DOMAIN agent_order}

\* AgentMonitor.__init__
AgentMonitorInit ==
    /\ agents = [a \in Agents |-> [status |-> "unknown", last_check |-> "None", failures |-> 0]]
    /\ mon_idx = 1
    /\ cycle = 0
    /\ alerts = {}
    /\ status_file = <<>>
    /\ checks = [a \in Agents |-> <<>>]

MonitorAbsent == AgentMonitorInit /\ mon_pc = "absent"

system_order == <<"valifi", "comfyui", "blue_elites">>
Systems == {system_order[i] : i \in DOMAIN system_order}

\* MultiSystemOrchestrator.__init__
OrchestratorInit ==
    /\ sys_processes = <<>>
    /\ sys_launched = {}
    /\ sys_alive = {}
    /\ orch_pending = <<>>
    /\ terminate_calls = {}
    /\ kill_calls = {}
    /\ shutdown_runs = 0
    /\ leaving = "nothing"

OrchestratorAbsent ==
    OrchestratorInit /\ enabled = [y \in Systems |-> TRUE] /\ orch_pc = "absent"

\* The supervisor as its constructor leaves it (shipped configuration), not run.
SupervisorAbsent ==
    /\ cfg = [s \in Services |-> ShippedService]
    /\ flaky = "terminal_agent"
    /\ processes = {}
    /\ alive = {}
    /\ orphaned = {}
    /\ restart_counts = [s \in Services |-> 0]
    /\ running = TRUE
    /\ pc = "absent"
    /\ idx = 1
    /\ pending = <<>>
    /\ health = Unprobed
    /\ report = NoReport
    /\ probe = NoProbe
    /\ health_check_counter = 0
    /\ auto_patch_counter = 0
    /\ monitor_counter = 0
    /\ patches_applied = 0
    /\ mem_sample = <<>>
    /\ gc_collections = 0
    /\ log = <<>>
    /\ health_cycle_done = FALSE
    /\ resignalled = FALSE

(***************************************************************************)
(* Initial state: __init__ has run, run_persistent_loop is about to start  *)
(* the services.                                                           *)
(***************************************************************************)
Init ==
    /\ flaky \in Services
    /\ cfg \in KingdomConfigs(flaky)
    /\ processes = {}
    /\ alive = {}
    /\ orphaned = {}
    /\ restart_counts = [s \in Services |-> 0]
    /\ running = TRUE
    /\ pc = "start_all"
    /\ idx = 1
    /\ pending = <<>>
    /\ health = Unprobed
    /\ report = NoReport
    /\ probe = NoProbe
    /\ health_check_counter = 0
    /\ auto_patch_counter = 0
    /\ monitor_counter = 0
    /\ patches_applied = 0
    /\ mem_sample = <<>>
    /\ gc_collections = 0
    /\ log = <<>>
    /\ health_cycle_done = FALSE
    /\ resignalled = FALSE
    /\ MonitorAbsent
    /\ OrchestratorAbsent

\* start_all_services that starts a service again until its process stays up.
StartAllServices_RetriesFailed ==
    /\ pc = "start_all"
    /\ \E go \in StartAnswers(service_order[idx]) :
        LET s == service_order[idx]
            r == StartService(processes, alive, orphaned, s, go)
        IN  /\ processes' = r.processes
            /\ alive' = r.alive
            /\ orphaned' = r.orphaned
            /\ log' = log \o r.log
    /\ IF service_order[idx] \notin alive'
       THEN pc' = pc /\ idx' = idx
       ELSE IF LastService THEN pc' = "loop" /\ idx' = 1 ELSE pc' = pc /\ idx' = idx + 1
    /\ UNCHANGED <<monitor_vars, orchestrator_vars, cfg, flaky, resignalled, health_cycle_done, restart_counts, running, pending, health, report, probe,
                   health_check_counter, auto_patch_counter, monitor_counter,
                   patches_applied, mem_sample, gc_collections>>

\* start_all_services: one start_service per service, in service_order.
StartAllServices ==
    /\ pc = "start_all"
    /\ \E go \in StartAnswers(service_order[idx]) :
        LET s == service_order[idx]
            r == StartService(processes, alive, orphaned, s, go)
        IN  /\ processes' = r.processes
            /\ alive' = r.alive
            /\ orphaned' = r.orphaned
            /\ log' = log \o r.log
    /\ IF LastService THEN pc' = "loop" /\ idx' = 1 ELSE pc' = pc /\ idx' = idx + 1
    /\ UNCHANGED <<monitor_vars, orchestrator_vars, cfg, flaky, resignalled, health_cycle_done, restart_counts, running, pending, health, report, probe,
                   health_check_counter, auto_patch_counter, monitor_counter,
                   patches_applied, mem_sample, gc_collections>>

\* A loop whose test is `while True`: the iteration never looks at self.running.
LoopTest_IgnoresFlag ==
    /\ pc = "loop"
    /\ log' = <<>>
    /\ idx' = 1
    /\ IF TRUE
       THEN /\ pc' = AfterLoopTest(health_check_counter, auto_patch_counter, monitor_counter)
            /\ pending' = pending
            /\ UNCHANGED <<health_check_counter, auto_patch_counter, monitor_counter>>
       ELSE /\ pc' = "shutdown"
            /\ pending' = SelectSeq(service_order, LAMBDA s : s \in processes)
            \* the counters are never read again
            /\ health_check_counter' = 0
            /\ auto_patch_counter' = 0
            /\ monitor_counter' = 0
    /\ UNCHANGED <<monitor_vars, orchestrator_vars, cfg, flaky, resignalled, health_cycle_done, processes, alive, orphaned, restart_counts, running, health, report, probe,
                   patches_applied, mem_sample, gc_collections>>

\* while self.running: the test, and the counter tests of the iteration's first activity.
LoopTest ==
    /\ pc = "loop"
    /\ log' = <<>>
    /\ idx' = 1
    /\ IF running
       THEN /\ pc' = AfterLoopTest(health_check_counter, auto_patch_counter, monitor_counter)
            /\ pending' = pending
            /\ UNCHANGED <<health_check_counter, auto_patch_counter, monitor_counter>>
       ELSE /\ pc' = "shutdown"
            /\ pending' = SelectSeq(service_order, LAMBDA s : s \in processes)
            \* the counters are never read again
            /\ health_check_counter' = 0
            /\ auto_patch_counter' = 0
            /\ monitor_counter' = 0
    /\ UNCHANGED <<monitor_vars, orchestrator_vars, cfg, flaky, resignalled, health_cycle_done, processes, alive, orphaned, restart_counts, running, health, report, probe,
                   patches_applied, mem_sample, gc_collections>>

\* A check_system_health in which the verdict of each service overwrites the status.
RecordVerdict_LastWins(rep, s, h) ==
    IF h THEN [rep EXCEPT !.overall_status = "healthy"]
    ELSE [overall_status |-> "degraded", issues |-> Append(rep.issues, Issue(s))]

\* check_system_health: what the verdict h on service s does to the status and the issues.
RecordVerdict(rep, s, h) ==
    IF h THEN rep
    ELSE [overall_status |-> "degraded", issues |-> Append(rep.issues, Issue(s))]

\* monitor_and_report: healthy_count and total_count of the report.
HealthyCount(hs) == Cardinality({s \in DOMAIN hs : hs[s] = "healthy"})

TotalCount(hs) == Cardinality(DOMAIN hs)

\* check_system_health, loop over the services: probe one service, record its verdict.
CheckSystemHealthProbe ==
    /\ pc \in {"health_probe", "report_probe"}
    /\ \E r \in ProbeAnswers(service_order[idx]) :
        LET s == service_order[idx]
            h == CheckServiceHealth(r)
        IN  /\ probe' = [service |-> s, response |-> r, healthy |-> h]
            /\ health' = [health EXCEPT ![s] = Verdict(h)]
            /\ report' = RecordVerdict(report, s, h)
    /\ IF LastService
       THEN /\ pc' = IF pc = "health_probe" THEN "health_resources" ELSE "report_resources"
            /\ idx' = 1
       ELSE pc' = pc /\ idx' = idx + 1
    /\ UNCHANGED <<monitor_vars, orchestrator_vars, cfg, flaky, resignalled, health_cycle_done, processes, alive, orphaned, restart_counts, running, pending,
                   health_check_counter, auto_patch_counter, monitor_counter,
                   patches_applied, mem_sample, gc_collections, log>>

\* check_system_health, resource block: psutil / os.getloadavg return or raise.
CheckSystemHealthResources ==
    /\ pc \in {"health_resources", "report_resources"}
    /\ \E raises \in BOOLEAN :
        IF raises
        THEN pc' = "except" /\ health' = Unprobed /\ report' = NoReport
        ELSE /\ pc' = IF pc = "health_resources" THEN "health_heal" ELSE "report_log"
             /\ health' = health
             /\ report' = report
    /\ probe' = NoProbe
    /\ UNCHANGED <<monitor_vars, orchestrator_vars, cfg, flaky, resignalled, health_cycle_done, processes, alive, orphaned, restart_counts, running, idx, pending,
                   health_check_counter, auto_patch_counter, monitor_counter,
                   patches_applied, mem_sample, gc_collections, log>>

\* A cycle that clears the restart count of a service it finds recovered.
Heal_ResetsOnRecovery(s, wanted) ==
    IF wanted
    THEN /\ restart_counts[s] < MaxRestartCount
         /\ \E so \in StopAnswers(s), go \in StartAnswers(s) :
             LET r == RestartService(processes, alive, orphaned, restart_counts, s, so, go)
             IN  /\ processes' = r.processes
                 /\ alive' = r.alive
                 /\ orphaned' = r.orphaned
                 /\ restart_counts' = r.restart_counts
                 /\ log' = log \o r.log
                 /\ patches_applied' =
                      IF pc = "patch_heal" /\ r.ok THEN patches_applied + 1 ELSE patches_applied
    ELSE /\ restart_counts' = [restart_counts EXCEPT ![s] = 0]
         /\ UNCHANGED <<processes, alive, orphaned, log, patches_applied>>

\* The restart a cycle issues for service s, or none.
Heal(s, wanted) ==
    IF wanted
    THEN /\ restart_counts[s] < MaxRestartCount
         /\ \E so \in StopAnswers(s), go \in StartAnswers(s) :
             LET r == RestartService(processes, alive, orphaned, restart_counts, s, so, go)
             IN  /\ processes' = r.processes
                 /\ alive' = r.alive
                 /\ orphaned' = r.orphaned
                 /\ restart_counts' = r.restart_counts
                 /\ log' = log \o r.log
                 /\ patches_applied' =
                      IF pc = "patch_heal" /\ r.ok THEN patches_applied + 1 ELSE patches_applied
    ELSE UNCHANGED <<processes, alive, orphaned, restart_counts, log, patches_applied>>

\* A health-check cycle that takes a service with a handle for started and leaves it.
HealthHealWanted_SkipsTracked(s) ==
    health[s] = "unhealthy" /\ cfg[s].restart_on_failure /\ s \notin processes

\* A health-check cycle that restarts every unhealthy service, whatever its flag.
HealthHealWanted_IgnoresFlag(s) == health[s] = "unhealthy"

\* run_persistent_loop, health checks: auto-heal one service of the health report.
HealthHealWanted(s) == health[s] = "unhealthy" /\ cfg[s].restart_on_failure

HealthHeal ==
    /\ pc = "health_heal"
    /\ Heal(service_order[idx], HealthHealWanted(service_order[idx]))
    /\ IF LastService
       THEN /\ health_check_counter' = 0
            /\ health_cycle_done' = TRUE
            /\ health' = Unprobed
            /\ report' = NoReport
            /\ pc' = AfterHealth(auto_patch_counter, monitor_counter)
            /\ idx' = 1
       ELSE /\ UNCHANGED <<health_check_counter, health, report, health_cycle_done>>
            /\ pc' = pc
            /\ idx' = idx + 1
    /\ UNCHANGED <<monitor_vars, orchestrator_vars, cfg, flaky, resignalled, running, pending, probe, auto_patch_counter, monitor_counter,
                   mem_sample, gc_collections>>

\* restart_service calls for s since the loop iteration began.
RestartsInLog(s) == Cardinality({i \in DOMAIN log : log[i] = Call("restart", s)})

\* A patch cycle that restarts nothing in an iteration whose health-check cycle has run.
PatchHealWanted_AfterHealthCycle(s, h) == ~h /\ cfg[s].critical /\ health_check_counter # 0

\* A patch cycle that leaves alone what the health-check cycle restarted in this iteration.
PatchHealWanted_OncePerTick(s, h) == ~h /\ cfg[s].critical /\ RestartsInLog(s) = 0

\* auto_patch_system, first loop: probe one service and restart it when unhealthy.
PatchHealWanted(s, h) == ~h /\ cfg[s].critical

PatchHeal ==
    /\ pc = "patch_heal"
    /\ LET s == service_order[idx]
       IN  IF cfg[s].restart_on_failure
           THEN \E r \in ProbeAnswers(s) :
                   /\ probe' = [service |-> s, response |-> r, healthy |-> CheckServiceHealth(r)]
                   /\ Heal(s, PatchHealWanted(s, CheckServiceHealth(r)))
           ELSE UNCHANGED <<probe, processes, alive, orphaned, restart_counts, log,
                            patches_applied>>
    /\ IF LastService
       THEN pc' = "patch_sweep" /\ idx' = 1
       ELSE pc' = pc /\ idx' = idx + 1
    /\ UNCHANGED <<monitor_vars, orchestrator_vars, cfg, flaky, resignalled, health_cycle_done, running, pending, health, report, health_check_counter, auto_patch_counter,
                   monitor_counter, mem_sample, gc_collections>>

\* The handles the sweep deletes: list(self.processes.keys()) with poll() not None.
Swept(p, a) == SelectSeq(service_order, LAMBDA s : s \in p /\ s \notin a)

\* A sweep that clears the whole process map.
PatchSweep_DropsAll ==
    /\ pc = "patch_sweep"
    /\ processes' = {}
    /\ log' = log \o [i \in DOMAIN Swept(processes, alive) |->
                        Call("sweep", Swept(processes, alive)[i])]
    /\ probe' = NoProbe
    /\ pc' = "patch_resources"
    /\ UNCHANGED <<monitor_vars, orchestrator_vars, cfg, flaky, resignalled, health_cycle_done, alive, orphaned,
                   restart_counts, running, idx, pending, health, report,
                   health_check_counter, auto_patch_counter, monitor_counter,
                   patches_applied, mem_sample, gc_collections>>

\* auto_patch_system, second loop: drop every handle whose process has exited, logging
\* each one dropped.
PatchSweep ==
    /\ pc = "patch_sweep"
    /\ processes' = processes \cap alive
    /\ log' = log \o [i \in DOMAIN Swept(processes, alive) |->
                        Call("sweep", Swept(processes, alive)[i])]
    /\ probe' = NoProbe
    /\ pc' = "patch_resources"
    /\ UNCHANGED <<monitor_vars, orchestrator_vars, cfg, flaky, resignalled, health_cycle_done, alive, orphaned,
                   restart_counts, running, idx, pending, health, report,
                   health_check_counter, auto_patch_counter, monitor_counter,
                   patches_applied, mem_sample, gc_collections>>

\* A resource block that answers memory pressure by restarting the tracked services.
PatchResources_Restarts ==
    /\ pc = "patch_resources"
    /\ \/ \E m \in MemSamples :
            /\ mem_sample' = <<m>>
            /\ IF m > MemoryThreshold
               THEN /\ gc_collections' = gc_collections + 1
                    /\ patches_applied' = patches_applied + 1
                    /\ restart_counts' =
                         [s \in Services |->
                            IF s \in processes /\ restart_counts[s] < MaxRestartCount
                            THEN restart_counts[s] + 1 ELSE restart_counts[s]]
               ELSE UNCHANGED <<gc_collections, patches_applied, restart_counts>>
       \/ UNCHANGED <<mem_sample, gc_collections, patches_applied, restart_counts>>
    /\ pc' = "patch_log"
    /\ UNCHANGED <<monitor_vars, orchestrator_vars, cfg, flaky, resignalled, health_cycle_done, processes, alive, orphaned, running, idx,
                   pending, health, report, probe, health_check_counter, auto_patch_counter,
                   monitor_counter, log>>

\* A resource block whose test is mem_percent >= 90.
PatchResources_AtThreshold ==
    /\ pc = "patch_resources"
    /\ \/ \E m \in MemSamples :
            /\ mem_sample' = <<m>>
            /\ IF m >= MemoryThreshold
               THEN gc_collections' = gc_collections + 1 /\ patches_applied' = patches_applied + 1
               ELSE UNCHANGED <<gc_collections, patches_applied>>
       \/ UNCHANGED <<mem_sample, gc_collections, patches_applied>>
    /\ pc' = "patch_log"
    /\ UNCHANGED <<monitor_vars, orchestrator_vars, cfg, flaky, resignalled, health_cycle_done, processes, alive, orphaned, restart_counts,
                   running, idx, pending, health, report, probe, health_check_counter,
                   auto_patch_counter, monitor_counter, log>>

\* auto_patch_system, resource block: sample memory, collect garbage above the threshold.
PatchResources ==
    /\ pc = "patch_resources"
    /\ \/ \E m \in MemSamples :
            /\ mem_sample' = <<m>>
            /\ IF m > MemoryThreshold
               THEN gc_collections' = gc_collections + 1 /\ patches_applied' = patches_applied + 1
               ELSE UNCHANGED <<gc_collections, patches_applied>>
       \/ UNCHANGED <<mem_sample, gc_collections, patches_applied>>
    /\ pc' = "patch_log"
    /\ UNCHANGED <<monitor_vars, orchestrator_vars, cfg, flaky, resignalled, health_cycle_done, processes, alive, orphaned, restart_counts, running, idx, pending,
                   health, report, probe, health_check_counter, auto_patch_counter, monitor_counter,
                   log>>

\* auto_patch_system logs its count and returns; the loop resets auto_patch_counter.
PatchLog ==
    /\ pc = "patch_log"
    /\ auto_patch_counter' = 0
    /\ patches_applied' = 0
    /\ mem_sample' = <<>>
    /\ gc_collections' = 0
    /\ pc' = AfterPatch(monitor_counter)
    /\ UNCHANGED <<monitor_vars, orchestrator_vars, cfg, flaky, resignalled, health_cycle_done, processes, alive, orphaned, restart_counts, running, idx, pending,
                   health, report, probe, health_check_counter, monitor_counter, log>>

\* monitor_and_report logs the summary; the loop resets monitor_counter.
ReportLog ==
    /\ pc = "report_log"
    /\ monitor_counter' = 0
    /\ health' = Unprobed
    /\ report' = NoReport
    /\ pc' = "sleep"
    /\ UNCHANGED <<monitor_vars, orchestrator_vars, cfg, flaky, resignalled, health_cycle_done, processes, alive, orphaned, restart_counts, running, idx, pending,
                   probe, health_check_counter, auto_patch_counter, patches_applied,
                   mem_sample, gc_collections, log>>

\* time.sleep(1) and the three increments.
Sleep ==
    /\ pc = "sleep"
    /\ health_check_counter' = health_check_counter + 1
    /\ auto_patch_counter' = auto_patch_counter + 1
    /\ monitor_counter' = monitor_counter + 1
    /\ pc' = "loop"
    /\ UNCHANGED <<monitor_vars, orchestrator_vars, cfg, flaky, resignalled, health_cycle_done, processes, alive, orphaned, restart_counts, running, idx, pending,
                   health, report, probe, patches_applied, mem_sample, gc_collections, log>>

\* A loop without the except clause: the exception leaves run_persistent_loop.
Except_Propagates ==
    /\ pc = "except"
    /\ pc' = "propagated"
    /\ UNCHANGED <<monitor_vars, orchestrator_vars, cfg, flaky, resignalled, health_cycle_done, processes, alive, orphaned, restart_counts,
                   running, idx, pending, health, report, probe, health_check_counter,
                   auto_patch_counter, monitor_counter, patches_applied, mem_sample,
                   gc_collections, log>>

\* except Exception: log, sleep, next iteration.
Except ==
    /\ pc = "except"
    /\ pc' = "loop"
    /\ UNCHANGED <<monitor_vars, orchestrator_vars, cfg, flaky, resignalled, health_cycle_done, processes, alive, orphaned, restart_counts, running, idx, pending,
                   health, report, probe, health_check_counter, auto_patch_counter, monitor_counter,
                   patches_applied, mem_sample, gc_collections, log>>

\* Graceful shutdown: stop_service for the next key of the snapshot.
ShutdownStop ==
    /\ pc = "shutdown"
    /\ pending # <<>>
    /\ \E so \in StopAnswers(Head(pending)) :
        LET r == StopService(processes, alive, Head(pending), so)
        IN  /\ processes' = r.processes
            /\ alive' = r.alive
            /\ log' = log \o r.log
    /\ pending' = Tail(pending)
    /\ UNCHANGED <<monitor_vars, orchestrator_vars, cfg, flaky, resignalled, health_cycle_done, orphaned, restart_counts, running, pc, idx, health, report, probe,
                   health_check_counter, auto_patch_counter, monitor_counter,
                   patches_applied, mem_sample, gc_collections>>

\* The shutdown loop is over: run_persistent_loop returns.
ShutdownComplete ==
    /\ pc = "shutdown"
    /\ pending = <<>>
    /\ pc' = "stopped"
    /\ UNCHANGED <<monitor_vars, orchestrator_vars, cfg, flaky, resignalled, health_cycle_done, processes, alive, orphaned, restart_counts, running, idx, pending,
                   health, report, probe, health_check_counter, auto_patch_counter, monitor_counter,
                   patches_applied, mem_sample, gc_collections, log>>

\* A handler that flips self.running instead of clearing it.
SignalHandler_Toggles ==
    /\ pc # "stopped"
    /\ running' = ~running
    /\ resignalled' = (resignalled \/ ~running)
    /\ UNCHANGED <<monitor_vars, orchestrator_vars, cfg, flaky, health_cycle_done, processes, alive, orphaned, restart_counts,
                   pc, idx, pending, health, report, probe, health_check_counter,
                   auto_patch_counter, monitor_counter, patches_applied, mem_sample,
                   gc_collections, log>>

\* _signal_handler: SIGINT or SIGTERM arrives.
SignalHandler ==
    /\ pc # "stopped"
    /\ running' = FALSE
    /\ resignalled' = (resignalled \/ ~running)
    /\ UNCHANGED <<monitor_vars, orchestrator_vars, cfg, flaky, health_cycle_done, processes, alive, orphaned, restart_counts,
                   pc, idx, pending, health, report, probe, health_check_counter,
                   auto_patch_counter, monitor_counter, patches_applied, mem_sample,
                   gc_collections, log>>

\* Environment: a tracked service process exits on its own.
ProcessExits ==
    /\ flaky \in alive
    /\ alive' = alive \ {flaky}
    /\ UNCHANGED <<monitor_vars, orchestrator_vars, cfg, flaky, resignalled, health_cycle_done, processes, orphaned, restart_counts, running, pc, idx, pending,
                   health, report, probe, health_check_counter, auto_patch_counter, monitor_counter,
                   patches_applied, mem_sample, gc_collections, log>>

\* Environment: an untracked service process exits on its own.
OrphanExits ==
    /\ flaky \in orphaned
    /\ orphaned' = orphaned \ {flaky}
    /\ UNCHANGED <<monitor_vars, orchestrator_vars, cfg, flaky, resignalled, health_cycle_done, processes, alive, restart_counts, running, pc, idx, pending,
                   health, report, probe, health_check_counter, auto_patch_counter, monitor_counter,
                   patches_applied, mem_sample, gc_collections, log>>

Next ==
    \/ StartAllServices
    \/ LoopTest
    \/ CheckSystemHealthProbe
    \/ CheckSystemHealthResources
    \/ HealthHeal
    \/ PatchHeal
    \/ PatchSweep
    \/ PatchResources
    \/ PatchLog
    \/ ReportLog
    \/ Sleep
    \/ Except
    \/ ShutdownStop
    \/ ShutdownComplete
    \/ SignalHandler
    \/ ProcessExits
    \/ OrphanExits

Spec == Init /\ [][Next]_vars

\* The steps run_persistent_loop takes itself; the others are the environment's.
LoopNext ==
    \/ StartAllServices
    \/ LoopTest
    \/ CheckSystemHealthProbe
    \/ CheckSystemHealthResources
    \/ HealthHeal
    \/ PatchHeal
    \/ PatchSweep
    \/ PatchResources
    \/ PatchLog
    \/ ReportLog
    \/ Sleep
    \/ Except
    \/ ShutdownStop
    \/ ShutdownComplete

\* The program as shipped: every service has the entry KINGDOM_CONFIG gives it.
FairInit == Init /\ cfg = [s \in Services |-> ShippedService]

\* Every call the loop makes returns (probes time out, stop and start return or raise),
\* so the loop always takes its next step; signals and process exits may never come.
FairSpec == FairInit /\ [][Next]_vars /\ WF_vars(LoopNext)

(***************************************************************************)
(* The agent monitor (monitor_agents.py).                                  *)
(***************************************************************************)
\* The model runs monitor_loop for this many health-check cycles.
MaxCycles == 4

max_failures == 3

\* What requests.post does for the /predict request of one check.
MonitorResponses ==
    {<<"status", c>> : c \in {200, 404, 500}}
    \cup {<<"raises", e>> : e \in {"Timeout", "ConnectionError", "Exception"}}

\* The return value of check_agent_health.
AgentHealthy(r) == r = <<"status", 200>>

\* check_agent_health that leaves the failure count as it is on a healthy answer.
CheckAgentHealth_KeepsCount(c, r) ==
    IF AgentHealthy(r)
    THEN [c EXCEPT !.status = "healthy", !.last_check = "set"]
    ELSE [c EXCEPT !.failures = @ + 1,
                   !.status = IF r[1] = "status" THEN "degraded"
                              ELSE IF r[2] = "Timeout" THEN "timeout"
                              ELSE IF r[2] = "ConnectionError" THEN "down"
                              ELSE "error"]

\* check_agent_health on the agent's config c when the request does r.
CheckAgentHealth(c, r) ==
    IF AgentHealthy(r)
    THEN [c EXCEPT !.status = "healthy", !.failures = 0, !.last_check = "set"]
    ELSE [c EXCEPT !.failures = @ + 1,
                   !.status = IF r[1] = "status" THEN "degraded"
                              ELSE IF r[2] = "Timeout" THEN "timeout"
                              ELSE IF r[2] = "ConnectionError" THEN "down"
                              ELSE "error"]

\* get_status_summary (without the timestamp and the urls).
GetStatusSummary(ag) ==
    [a \in Agents |-> [status |-> ag[a].status, last_check |-> ag[a].last_check,
                       failures |-> ag[a].failures]]

LastAgent == mon_idx = Len(agent_order)

\* __main__: `continuous` enters monitor_loop, `once` (or no argument) run_single_check.
MonitorInit ==
    /\ AgentMonitorInit
    /\ mon_pc \in {"check", "once"}
    /\ SupervisorAbsent
    /\ OrchestratorAbsent

\* monitor_loop, one pass of the for-loop: check the agent, alert if it has failed too often.
MonitorLoopCheck ==
    /\ mon_pc = "check"
    /\ \E r \in MonitorResponses :
        LET a == agent_order[mon_idx]
            c == CheckAgentHealth(agents[a], r)
        IN  /\ agents' = [agents EXCEPT ![a] = c]
            /\ checks' = [checks EXCEPT ![a] = Append(@, AgentHealthy(r))]
            /\ alerts' = IF c.failures >= max_failures THEN alerts \cup {a} ELSE alerts
    /\ IF LastAgent
       THEN mon_pc' = "save" /\ mon_idx' = 1
       ELSE mon_pc' = mon_pc /\ mon_idx' = mon_idx + 1
    /\ UNCHANGED <<supervisor_vars, orchestrator_vars, cycle, status_file>>

\* monitor_loop after the for-loop: save_status, the summary, the duration test.
MonitorLoopSave ==
    /\ mon_pc = "save"
    /\ status_file' = <<GetStatusSummary(agents)>>
    /\ cycle' = cycle + 1
    /\ \E expired \in BOOLEAN : mon_pc' = IF expired THEN "done" ELSE "sleep"
    /\ UNCHANGED <<supervisor_vars, orchestrator_vars, agents, mon_idx, alerts, checks>>

\* monitor_loop: time.sleep(check_interval), then the next cycle.
MonitorLoopSleep ==
    /\ mon_pc = "sleep"
    /\ cycle < MaxCycles
    /\ mon_pc' = "check"
    /\ alerts' = {}
    /\ UNCHANGED <<supervisor_vars, orchestrator_vars, agents, mon_idx, cycle, status_file, checks>>

\* monitor_loop: KeyboardInterrupt ends the loop.
MonitorLoopInterrupt ==
    /\ mon_pc \in {"check", "save", "sleep"}
    /\ mon_pc' = "done"
    /\ UNCHANGED <<supervisor_vars, orchestrator_vars, agents, mon_idx, cycle, alerts,
                   status_file, checks>>

\* run_single_check: check one agent; after the last one, save_status.
RunSingleCheck ==
    /\ mon_pc = "once"
    /\ \E r \in MonitorResponses :
        LET a == agent_order[mon_idx]
        IN  /\ agents' = [agents EXCEPT ![a] = CheckAgentHealth(agents[a], r)]
            /\ checks' = [checks EXCEPT ![a] = Append(@, AgentHealthy(r))]
            /\ IF LastAgent
               THEN /\ mon_pc' = "done"
                    /\ mon_idx' = 1
                    /\ status_file' = <<GetStatusSummary(agents')>>
               ELSE /\ mon_pc' = mon_pc
                    /\ mon_idx' = mon_idx + 1
                    /\ status_file' = status_file
    /\ UNCHANGED <<supervisor_vars, orchestrator_vars, cycle, alerts>>

MonitorNext ==
    \/ MonitorLoopCheck
    \/ MonitorLoopSave
    \/ MonitorLoopSleep
    \/ MonitorLoopInterrupt
    \/ RunSingleCheck

MonitorSpec == MonitorInit /\ [][MonitorNext]_vars

(***************************************************************************)
(* The multi-system orchestrator (multi_system_orchestrator.py).           *)
(* A KeyboardInterrupt may arrive at any point of orchestrate; a start     *)
(* step covers the start_* call and the sleep that follows it.             *)
(***************************************************************************)
\* What happens in the start of an enabled system and the sleep after it: the process
\* is launched and stored; open() or Popen raises; the interrupt arrives before the
\* launch, between the launch and the store into self.processes, or in the sleep.
LaunchOutcomes ==
    {"started", "raises", "interrupted_before", "interrupted_unstored", "interrupted_after"}

\* What happens in one pass of the loop of shutdown for a running process.
ShutdownOutcomes ==
    {"terminated", "killed", "terminate_raises", "interrupted_before_terminate",
     "interrupted_in_sleep"}

Keys(q) == {q[i] : i \in DOMAIN q}

\* main(): the orchestrator is constructed and orchestrate() is entered.
OrchestratorStart ==
    /\ OrchestratorInit
    /\ enabled \in [Systems -> BOOLEAN]
    /\ orch_pc = "start_valifi"
    /\ SupervisorAbsent
    /\ MonitorAbsent

\* How the try body of orchestrate is left for the finally clause.
Leave(how) == orch_pc' = "finally" /\ leaving' = how

\* start_valifi_system / start_comfyui / start_blue_elites for system y, and the sleep
\* after it; `then` is where orchestrate goes on.
StartSystem(y, then) ==
    IF ~enabled[y]
    THEN /\ UNCHANGED <<sys_processes, sys_launched, sys_alive>>
         /\ \E o \in {"skipped", "interrupted_after"} :
              IF o = "skipped"
              THEN orch_pc' = then /\ leaving' = leaving
              ELSE Leave("KeyboardInterrupt")
    ELSE \E o \in LaunchOutcomes :
           /\ sys_processes' =
                IF o \in {"started", "interrupted_after"}
                THEN Append(sys_processes, y) ELSE sys_processes
           /\ sys_launched' =
                IF o \in {"started", "interrupted_after", "interrupted_unstored"}
                THEN sys_launched \cup {y} ELSE sys_launched
           /\ sys_alive' =
                IF o \in {"started", "interrupted_after", "interrupted_unstored"}
                THEN sys_alive \cup {y} ELSE sys_alive
           /\ IF o = "started" THEN orch_pc' = then /\ leaving' = leaving
              ELSE IF o = "raises" THEN Leave("Exception")
              ELSE Leave("KeyboardInterrupt")

StartValifiSystem ==
    /\ orch_pc = "start_valifi"
    /\ StartSystem("valifi", "start_comfyui")
    /\ UNCHANGED <<supervisor_vars, monitor_vars, enabled, orch_pending, terminate_calls,
                   kill_calls, shutdown_runs>>

StartComfyui ==
    /\ orch_pc = "start_comfyui"
    /\ StartSystem("comfyui", "start_blue_elites")
    /\ UNCHANGED <<supervisor_vars, monitor_vars, enabled, orch_pending, terminate_calls,
                   kill_calls, shutdown_runs>>

StartBlueElites ==
    /\ orch_pc = "start_blue_elites"
    /\ StartSystem("blue_elites", "display_status")
    /\ UNCHANGED <<supervisor_vars, monitor_vars, enabled, orch_pending, terminate_calls,
                   kill_calls, shutdown_runs>>

\* display_status: the 15 s sleep and the health check; then orchestrate idles.
DisplayStatus ==
    /\ orch_pc = "display_status"
    /\ \E o \in {"shown", "raises", "interrupted"} :
         IF o = "shown" THEN orch_pc' = "idle" /\ leaving' = leaving
         ELSE IF o = "raises" THEN Leave("Exception")
         ELSE Leave("KeyboardInterrupt")
    /\ UNCHANGED <<supervisor_vars, monitor_vars, enabled, sys_processes, sys_launched,
                   sys_alive, orch_pending, terminate_calls, kill_calls, shutdown_runs>>

\* orchestrate, `while True: time.sleep(60)`: the KeyboardInterrupt is caught there.
KeepRunning ==
    /\ orch_pc = "idle"
    /\ orch_pc' = "finally"
    /\ UNCHANGED <<supervisor_vars, monitor_vars, enabled, sys_processes, sys_launched,
                   sys_alive, orch_pending, terminate_calls, kill_calls, shutdown_runs,
                   leaving>>

\* orchestrate, finally: shutdown() is called and starts its loop over self.processes.
Finally ==
    /\ orch_pc = "finally"
    /\ shutdown_runs' = shutdown_runs + 1
    /\ orch_pending' = sys_processes
    /\ orch_pc' = "shutdown"
    /\ UNCHANGED <<supervisor_vars, monitor_vars, enabled, sys_processes, sys_launched,
                   sys_alive, terminate_calls, kill_calls, leaving>>

\* shutdown, one pass of its loop: terminate, sleep 2 s, kill if still running; whatever
\* is raised in the pass, a KeyboardInterrupt included, is dropped by the bare except.
Shutdown ==
    /\ orch_pc = "shutdown"
    /\ orch_pending # <<>>
    /\ \E o \in ShutdownOutcomes :
        LET y == Head(orch_pending)
        IN  /\ terminate_calls' =
                 IF o = "interrupted_before_terminate"
                 THEN terminate_calls ELSE terminate_calls \cup {y}
            /\ kill_calls' =
                 IF o = "killed" /\ y \in sys_alive THEN kill_calls \cup {y} ELSE kill_calls
            /\ sys_alive' =
                 IF o \in {"terminated", "killed", "interrupted_in_sleep"}
                 THEN sys_alive \ {y} ELSE sys_alive
    /\ orch_pending' = Tail(orch_pending)
    /\ UNCHANGED <<supervisor_vars, monitor_vars, enabled, sys_processes, sys_launched,
                   orch_pc, shutdown_runs, leaving>>

\* shutdown returns; orchestrate returns, or the KeyboardInterrupt that left its try
\* body goes on to main.
OrchestrateEnds ==
    /\ orch_pc = "shutdown"
    /\ orch_pending = <<>>
    /\ orch_pc' = IF leaving = "KeyboardInterrupt" THEN "propagated" ELSE "returned"
    /\ UNCHANGED <<supervisor_vars, monitor_vars, enabled, sys_processes, sys_launched,
                   sys_alive, orch_pending, terminate_calls, kill_calls, shutdown_runs,
                   leaving>>

\* Environment: a launched process exits by itself.
SystemExits ==
    /\ orch_pc \notin {"absent", "returned", "propagated"}
    /\ \E y \in sys_alive : sys_alive' = sys_alive \ {y}
    /\ UNCHANGED <<supervisor_vars, monitor_vars, enabled, sys_processes, sys_launched,
                   orch_pc, orch_pending, terminate_calls, kill_calls, shutdown_runs,
                   leaving>>

OrchestratorNext ==
    \/ StartValifiSystem
    \/ StartComfyui
    \/ StartBlueElites
    \/ DisplayStatus
    \/ KeepRunning
    \/ Finally
    \/ Shutdown
    \/ OrchestrateEnds
    \/ SystemExits

OrchestratorSpec == OrchestratorStart /\ [][OrchestratorNext]_vars

(***************************************************************************)
(* Properties.                                                             *)
(***************************************************************************)
\* A step of run_persistent_loop itself (not of the environment) inside a for-loop or
\* from one activity to the next.
LoopStep == <<pc', idx'>> # <<pc, idx>>

Current == service_order[idx]

Signals(l) == {i \in DOMAIN l : l[i].op \in {"SIGTERM", "SIGKILL"}}

\* C1: restart ceiling.  For every service with a bounded max_restarts = N,
\* restart_counts never exceeds N in any reachable state.
C1_RestartCeiling ==
    \A s \in Services :
        cfg[s].max_restarts # Unbounded => restart_counts[s] <= cfg[s].max_restarts

\* C2: a service whose critical flag is false is never restarted automatically, by the
\* health-check cycle or by the patch cycle: its restart count stays at its initial
\* value 0 and no restart is issued for it.
C2_NonCriticalNeverRestarted ==
    \A s \in Services :
        ~cfg[s].critical => restart_counts[s] = 0 /\ RestartsInLog(s) = 0

\* C3: whenever the probed service answers GET /health with an HTTP response whose
\* status is not 200 (404 in particular), the probe classifies it healthy; the verdict
\* is what the health-check and patch cycles restart on.
C3_Non200AnswerIsHealthy ==
    (probe.service # "none" /\ probe.response.health_path[1] = "status")
        => probe.healthy

\* C4 as stated: for a critical, restart_on_failure, unbounded service the first
\* health-check cycle only records the failure (no restart before a health-check cycle
\* has run to its end), and the restart count grows by exactly 1 per health-check
\* cycle also in the iterations in which a patch cycle fires (never two restarts in
\* one iteration).
C4_AsStated ==
    \A s \in Services :
        cfg[s] = ShippedService =>
            /\ ~health_cycle_done => restart_counts[s] = 0
            /\ RestartsInLog(s) <= 1

\* C4 amended: for a critical, restart_on_failure, unbounded service, every
\* health-check cycle whose report shows it not healthy, the first one included,
\* restarts it and raises its restart count by exactly 1; a patch cycle whose own probe
\* finds it not healthy raises the count by exactly 1 more, also in an iteration in
\* which the health-check cycle already restarted it; no other step changes the count.
C4_RestartPerCycle ==
    [][\A s \in Services :
         cfg[s] = ShippedService =>
            /\ (pc = "health_heal" /\ LoopStep /\ Current = s /\ health[s] = "unhealthy")
                 => restart_counts'[s] = restart_counts[s] + 1
            /\ (pc = "patch_heal" /\ LoopStep /\ Current = s /\ ~probe'.healthy)
                 => restart_counts'[s] = restart_counts[s] + 1
            /\ restart_counts'[s] # restart_counts[s]
                 => /\ restart_counts'[s] = restart_counts[s] + 1
                    /\ pc \in {"health_heal", "patch_heal"}
                    /\ Current = s
                    /\ RestartsInLog(s)' = RestartsInLog(s) + 1
                    /\ RestartsInLog(s)' <= 2]_vars

\* C4 witness: the health-check cycle and the patch cycle of one iteration have both
\* restarted the same shipped-configuration service.
C4_Witness ==
    \E s \in Services :
        cfg[s] = ShippedService /\ RestartsInLog(s) = 2 /\ restart_counts[s] >= 2

C6_ShutdownTotal ==
    pc = "stopped" => alive = {} /\ orphaned = {}

\* C7: wherever the supervisor calls stop_service (a restart of either cycle, the
\* shutdown loop): on a service without a tracked process it returns success, leaves the
\* process map and the running processes as they are and sends no signal; a stop that
\* follows a successful stop is such a no-op; and a second stop in a row that the
\* process answers as it answered the first leaves the state the first left.
C7_StopIdempotent ==
    pc \in {"health_heal", "patch_heal", "shutdown"} =>
    \A s \in Services, o1 \in StopOutcomes :
        LET r1 == StopService(processes, alive, s, o1)
        IN  /\ s \notin processes =>
                /\ r1.ok
                /\ r1.processes = processes
                /\ r1.alive = alive
                /\ Signals(r1.log) = {}
            /\ r1.ok =>
                \A o2 \in StopOutcomes :
                    LET r2 == StopService(r1.processes, r1.alive, s, o2)
                    IN  /\ r2.ok
                        /\ r2.processes = r1.processes
                        /\ r2.alive = r1.alive
                        /\ Signals(r2.log) = {}
            /\ ~r1.ok =>
                LET r3 == StopService(r1.processes, r1.alive, s, o1)
                IN  r3.processes = r1.processes /\ r3.alive = r1.alive

\* C7 witness: stop_service has been called for a service that had no handle, and the
\* service has none now.
C7_Witness ==
    \E s \in Services :
        /\ pc \in {"health_heal", "patch_heal"}
        /\ s \notin processes
        /\ \E i \in DOMAIN log : log[i] = Call("no_handle", s)

\* C8: the resource block of the patch cycle leaves the process map, the running
\* processes and every restart count unchanged and issues no stop, start or restart,
\* whatever the memory sample is.
C8_MemoryRuleIsolated ==
    [][(pc = "patch_resources" /\ pc' = "patch_log")
         => UNCHANGED <<processes, alive, orphaned, restart_counts, log>>]_vars

\* C8 witness: the memory-pressure response has run while services are tracked.
C8_Witness ==
    pc = "patch_log" /\ gc_collections = 1 /\ processes # {}

\* C9: in a patch cycle the memory-pressure response runs exactly once and counts as
\* exactly one patch if the sampled mem_percent is greater than 90; at 90 or below, or
\* without a sample, it does not run and the patch count is not raised.
C9_MemoryPressureTrigger ==
    [][(pc = "patch_resources" /\ pc' = "patch_log")
         => IF mem_sample' # <<>> /\ mem_sample'[1] > 90
            THEN gc_collections' = 1 /\ patches_applied' = patches_applied + 1
            ELSE gc_collections' = 0 /\ patches_applied' = patches_applied]_vars

\* C9 witness: a sample just above the threshold has triggered the response.
C9_Witness ==
    pc = "patch_log" /\ mem_sample = <<91>> /\ gc_collections = 1 /\ patches_applied >= 1

\* C10: an exception raised by the work of an iteration is caught inside the loop,
\* which goes on to its next iteration with the running flag as it was; the loop is
\* left (shutdown, stopped) only with the running flag cleared; no exception leaves
\* run_persistent_loop.
C10_CycleErrorsNotFatal ==
    [][/\ (pc \in {"health_resources", "report_resources"} /\ pc' # pc)
            => pc' \in {"health_heal", "report_log", "except"}
       /\ (pc = "except" /\ pc' # pc) => (pc' = "loop" /\ running' = running)
       /\ pc' \in {"shutdown", "stopped"} => ~running'
       /\ pc' # "propagated"]_vars

\* C10 witness: an activity has raised while the supervisor is running.
C10_Witness ==
    pc = "except" /\ running

\* Everything the supervisor holds but the running flag and the history of signals.
beside_running ==
    <<cfg, flaky, processes, alive, orphaned, restart_counts, pc, idx, pending, health,
      report, probe, health_check_counter, auto_patch_counter, monitor_counter, patches_applied,
      mem_sample, gc_collections, log, health_cycle_done>>

StopsInLog(s) == Cardinality({i \in DOMAIN log : log[i] = Call("stop", s)})

\* C11: self.running goes from True to False at the first signal and is never set back;
\* a signal changes nothing but the flag, and a second signal changes nothing at all;
\* the shutdown sequence is entered once, from the loop test with the flag cleared, is
\* never left but for the end of the run, and calls stop_service once for each key of
\* its snapshot of the process map.
C11_ShutdownOneWay ==
    [][/\ ~running => ~running'
       /\ running' # running => UNCHANGED beside_running
       /\ resignalled' # resignalled => UNCHANGED <<beside_running, running>>
       /\ resignalled => ~running
       /\ (pc' = "shutdown" /\ pc # "shutdown") => (pc = "loop" /\ ~running)
       /\ pc = "shutdown" => pc' \in {"shutdown", "stopped"}
       /\ pc = "stopped" => UNCHANGED <<pc, running, pending, processes, log>>
       /\ (pc' = "shutdown" /\ pc # "shutdown") =>
             /\ log' = <<>>
             /\ \A s \in Services :
                   Cardinality({i \in DOMAIN pending' : pending'[i] = s})
                       = IF s \in processes THEN 1 ELSE 0
       /\ (pc = "shutdown" /\ pending' # pending) =>
             /\ pending' = Tail(pending)
             /\ \A s \in Services :
                   StopsInLog(s)' = IF s = Head(pending) THEN 1 ELSE StopsInLog(s)
       /\ (pc = "shutdown" /\ pc' = "stopped") => pending = <<>>]_vars

\* C11 witness: the run has ended after a second signal, the shutdown sequence having
\* called stop_service for every service.
C11_Witness ==
    /\ pc = "stopped"
    /\ resignalled
    /\ ~running
    /\ \A s \in Services : StopsInLog(s) = 1

\* The model explores no restart beyond MaxRestartCount.
AtRestartBound == \E s \in Services : restart_counts[s] >= MaxRestartCount

\* C12: once self.running is cleared, the loop test starts no further iteration: the
\* next while test leaves the loop for the shutdown sequence with the snapshot of the
\* process map, and no activity starts from the loop test; with every call returning,
\* the supervisor then reaches the end of run_persistent_loop, stop_service having been
\* called for every service of the snapshot.
C12_SignalEndsRun ==
    /\ [][(~running /\ pc = "loop" /\ pc' # pc)
             => /\ pc' = "shutdown"
                /\ pending' = SelectSeq(service_order, LAMBDA s : s \in processes)]_vars
    /\ [](pc = "stopped" => pending = <<>>)
    /\ (~running ~> (pc = "stopped" \/ AtRestartBound))

\* C12 witness: a signal came in the middle of a health-check cycle, the iteration was
\* finished, and the run has ended with every tracked service stopped.
C12_Witness ==
    /\ pc = "stopped"
    /\ ~running
    /\ health_cycle_done
    /\ processes = {}
    /\ \A s \in Services : StopsInLog(s) = 1

\* restart_service calls in a log, for whatever service.
RestartCalls(l) == Cardinality({i \in DOMAIN l : l[i].op = "restart"})

\* C13: every restart_service call raises the restart count of its service by exactly
\* 1 and leaves the other counts alone, whatever the stop and the start that follow do
\* (the start succeeds, the process exits during the startup wait, the launch raises);
\* a count changes in no step but one that calls restart_service for that service, and
\* such a step calls it once.
C13_RestartCountsAttempts ==
    [][/\ restart_counts' # restart_counts =>
            /\ pc \in {"health_heal", "patch_heal"}
            /\ restart_counts' = [restart_counts EXCEPT ![Current] = restart_counts[Current] + 1]
       /\ (pc \in {"health_heal", "patch_heal"} /\ LoopStep) =>
            \A s \in {Current} :
                /\ RestartCalls(log') \in {RestartCalls(log), RestartCalls(log) + 1}
                /\ RestartsInLog(s)' = RestartsInLog(s) + (RestartCalls(log') - RestartCalls(log))
                /\ restart_counts'[s] = restart_counts[s] + (RestartCalls(log') - RestartCalls(log))
                /\ \A so \in StopOutcomes, go \in StartOutcomes :
                      RestartService(processes, alive, orphaned, restart_counts, s, so, go)
                          .restart_counts
                        = [restart_counts EXCEPT ![s] = restart_counts[s] + 1]
       /\ pc \notin {"health_heal", "patch_heal", "loop"} => RestartCalls(log') = RestartCalls(log)]_vars

\* C13 witness: a restart whose launch raised (the stop removed the handle, the start
\* added none) has been counted.
C13_Witness ==
    \E s \in Services :
        /\ log # <<>>
        /\ log[Len(log)] = Call("start", s)
        /\ RestartsInLog(s) >= 1
        /\ s \notin processes
        /\ restart_counts[s] >= 1

\* C14: the restart count of every service never decreases: no step of the supervisor
\* (start, stop, probe, restart, patch, report, shutdown) and no step of its
\* environment lowers or resets it.
C14_RestartCountMonotone ==
    [][\A s \in Services : restart_counts'[s] >= restart_counts[s]]_vars

\* C14 witness: a service has been restarted twice and stopped by the shutdown
\* sequence, and the run has ended with its count kept.
C14_Witness ==
    \E s \in Services :
        /\ pc = "stopped"
        /\ restart_counts[s] >= 2
        /\ StopsInLog(s) = 1

\* C15: a service has a handle in the process map if and only if the supervisor's last
\* liveness check of its process found it running.  Stated where the claim states it
\* in particular: start_service ends with such a check (poll() after the startup wait),
\* so after every step in which start_service was the last call for a service, the first
\* loop test after start_all_services included, the service has a handle exactly if
\* that check found the process running.
C15_HandleIffObservedAlive ==
    [][\A s \in {Current} :
         (/\ pc \in {"start_all", "health_heal", "patch_heal"}
          /\ Len(log') > Len(log)
          /\ log'[Len(log')] = Call("start", s))
         => (s \in processes' <=> s \in alive')]_vars

\* C16: a health-check or patch cycle stops or restarts a service only if its
\* restart_on_failure is set and the probe that same cycle took of it found it not
\* healthy; the step of a cycle for a service it probed healthy, or whose
\* restart_on_failure is not set, changes neither the process map, nor a process, nor a
\* count, and issues no call.
C16_RestartNeedsFailedProbe ==
    [][(pc \in {"health_heal", "patch_heal"} /\ LoopStep) =>
         \A s \in Services :
            /\ (\/ RestartsInLog(s)' # RestartsInLog(s)
                \/ StopsInLog(s)' # StopsInLog(s)
                \/ restart_counts'[s] # restart_counts[s])
                 => /\ s = Current
                    /\ cfg[s].restart_on_failure
                    /\ pc = "health_heal" => health[s] = "unhealthy"
                    /\ pc = "patch_heal" => (probe'.service = s /\ ~probe'.healthy)
            /\ (/\ s = Current
                /\ \/ ~cfg[s].restart_on_failure
                   \/ pc = "health_heal" /\ health[s] = "healthy"
                   \/ pc = "patch_heal" /\ probe'.service = s /\ probe'.healthy)
                 => UNCHANGED <<processes, alive, orphaned, restart_counts, log>>]_vars

\* C16 witness: a health-check cycle has passed a service it probed not healthy and
\* whose restart_on_failure is not set, and has left it alone.
C16_Witness ==
    \E i \in 1..(idx - 1) :
        /\ pc = "health_heal"
        /\ health[service_order[i]] = "unhealthy"
        /\ ~cfg[service_order[i]].restart_on_failure
        /\ service_order[i] \in processes
        /\ log = <<>>

\* The activity that follows the patch cycle, the health-check cycle, the loop test,
\* as the schedule of the claim gives it.
DueAfterPatch == IF monitor_counter = 30 THEN "report_probe" ELSE "sleep"

DueAfterHealth == IF auto_patch_counter = 60 THEN "patch_heal" ELSE DueAfterPatch

DueAfterLoopTest == IF health_check_counter = 10 THEN "health_probe" ELSE DueAfterHealth

\* C17: the three counters never pass 10, 60 and 30; the sleep at the end of an
\* iteration raises each by exactly 1; an iteration runs the health-check cycle exactly
\* when its counter is 10, the patch cycle exactly when its counter is 60 and the report
\* exactly when its counter is 30, in this order; a cycle that runs to its end resets
\* its counter to 0, and while the loop runs no other step changes a counter.
C17_PeriodicSchedule ==
    [][/\ health_check_counter \in 0..10
       /\ auto_patch_counter \in 0..60
       /\ monitor_counter \in 0..30
       /\ (pc = "sleep" /\ pc' # pc) =>
            /\ pc' = "loop"
            /\ health_check_counter' = health_check_counter + 1
            /\ auto_patch_counter' = auto_patch_counter + 1
            /\ monitor_counter' = monitor_counter + 1
       /\ (pc = "loop" /\ running /\ pc' # pc) =>
            (pc' = DueAfterLoopTest /\ UNCHANGED <<health_check_counter, auto_patch_counter, monitor_counter>>)
       /\ (pc = "health_heal" /\ pc' # pc) =>
            (pc' = DueAfterHealth /\ health_check_counter' = 0
               /\ UNCHANGED <<auto_patch_counter, monitor_counter>>)
       /\ (pc = "patch_log" /\ pc' # pc) =>
            (pc' = DueAfterPatch /\ auto_patch_counter' = 0
               /\ UNCHANGED <<health_check_counter, monitor_counter>>)
       /\ (pc = "report_log" /\ pc' # pc) =>
            (pc' = "sleep" /\ monitor_counter' = 0
               /\ UNCHANGED <<health_check_counter, auto_patch_counter>>)
       /\ (/\ <<health_check_counter, auto_patch_counter, monitor_counter>>'
                 # <<health_check_counter, auto_patch_counter, monitor_counter>>
           /\ pc' # "shutdown")
            => (pc \in {"sleep", "health_heal", "patch_log", "report_log"} /\ pc' # pc)]_vars

\* C17 witness: the iteration in which all three counters are due (10, 60, 30) has run
\* and reset the health-check and patch cycles and now starts the report.
C17_Witness ==
    /\ pc = "report_probe"
    /\ idx = 1
    /\ monitor_counter = 30
    /\ auto_patch_counter = 0
    /\ health_check_counter = 0
    /\ health_cycle_done
    /\ running

\* The first n starts of start_all_services.
StartsIssued(n) == [i \in 1..n |-> Call("start", service_order[i])]

\* C18: while start_all_services runs, the calls issued so far are one start_service
\* per service, in the order terminal_agent, sdk_agent, orchestrator, interface, and no
\* service has been probed, restarted or stopped; the loop is entered from the last of
\* these starts only, all four having been issued, the interface last; and
\* start_all_services never runs again.
C18_StartupOrdering ==
    [][/\ service_order = <<"terminal_agent", "sdk_agent", "orchestrator", "interface">>
       /\ pc = "start_all" =>
            /\ log = StartsIssued(idx - 1)
            /\ restart_counts = [s \in Services |-> 0]
            /\ health = Unprobed
            /\ probe = NoProbe
            /\ ~health_cycle_done
            /\ pc' \in {"start_all", "loop"}
            /\ pc' = "loop" => log' = StartsIssued(4)
            /\ (pc' = "start_all" /\ log' # log) => log' = StartsIssued(idx)
       /\ pc # "start_all" => pc' # "start_all"]_vars

\* C18 witness: the loop is about to run its first iteration, the four starts issued,
\* one of them having failed.
C18_Witness ==
    /\ pc = "loop"
    /\ log = StartsIssued(4)
    /\ processes # Services
    /\ health_check_counter = 0

\* The report check_system_health builds from the verdicts hs on the first n services.
RECURSIVE ReportAfter(_, _)
ReportAfter(hs, n) ==
    IF n = 0 THEN NoReport
    ELSE RecordVerdict(ReportAfter(hs, n - 1), service_order[n],
                       hs[service_order[n]] = "healthy")

\* What the claim says of a report rep on the verdicts hs.
AggregateStatus(hs, rep) ==
    /\ TotalCount(hs) = Len(service_order)
    /\ rep.overall_status \in {"healthy", "degraded"}
    /\ rep.overall_status = "healthy" <=> HealthyCount(hs) = TotalCount(hs)
    /\ \A s \in Services :
          Cardinality({i \in DOMAIN rep.issues : rep.issues[i].svc = s})
              = IF hs[s] = "healthy" THEN 0 ELSE 1
    /\ Len(rep.issues) = TotalCount(hs) - HealthyCount(hs)

\* C19: when a report cycle logs its summary, the overall status is healthy if and only
\* if the number of services probed healthy equals the number of configured services;
\* otherwise it is degraded, and the issue list holds exactly one entry for each service
\* probed not healthy and no other; the same holds of the report check_system_health
\* builds from any verdicts on the four services.
C19_AggregateStatus ==
    pc = "report_log" =>
        /\ \A s \in Services : health[s] \in {"healthy", "unhealthy"}
        /\ AggregateStatus(health, report)
        /\ \A hs \in [Services -> {"healthy", "unhealthy"}] :
              AggregateStatus(hs, ReportAfter(hs, Len(service_order)))

\* C19 witness: a report cycle is about to log a degraded status, a service healthy
\* after the unhealthy one.
C19_Witness ==
    /\ pc = "report_log"
    /\ report.overall_status = "degraded"
    /\ Len(report.issues) = 1
    /\ health["terminal_agent"] = "unhealthy"
    /\ health["interface"] = "healthy"

\* Service s has been restarted as often as its bounded max_restarts allows.
CeilingReached(s) ==
    cfg[s].max_restarts # Unbounded /\ restart_counts[s] >= cfg[s].max_restarts

\* C20: a service that has reached its max_restarts ceiling does not end the run (the
\* loop is left only with the running flag cleared), and every status report that
\* probes it not healthy from then on lists it with the issue RestartCeilingReached.
C20_CeilingIsReported ==
    /\ pc \in {"shutdown", "stopped"} => ~running
    /\ pc = "report_log" =>
          \A s \in Services :
              (CeilingReached(s) /\ health[s] = "unhealthy")
                  => \E i \in DOMAIN report.issues :
                        report.issues[i] = [svc |-> s, issue |-> "RestartCeilingReached"]

\* C21: start_service returns failure, and raises nothing, when the launch raises or the
\* process has exited at the check after the startup wait: a step that starts or
\* restarts a service goes on to the next service or activity, never to the except
\* clause; and every health-check cycle that finds a service with restart_on_failure
\* not healthy while it has no running process issues a restart for it, the restart
\* ending in a new start.
C21_FailedStartIsRetried ==
    [][/\ \A s \in Services, p \in {processes}, a \in {alive}, q \in {orphaned} :
            (pc \in {"start_all", "health_heal", "patch_heal"} /\ s = Current)
                => /\ ~StartService(p, a, q, s, "raises").ok
                   /\ ~StartService(p, a, q, s, "exited").ok
                   /\ s \notin StartService(p, a, q, s, "exited").alive
                   /\ StartService(p, a, q, s, "running").ok
       /\ (pc \in {"start_all", "health_heal", "patch_heal"} /\ pc' # pc)
            => pc' \in {"loop", "health_heal", "patch_heal", "patch_sweep", "report_probe",
                        "sleep"}
       /\ \A s \in {Current} :
            (/\ pc = "health_heal"
             /\ LoopStep
             /\ cfg[s].restart_on_failure
             /\ health[s] = "unhealthy"
             /\ s \notin alive)
            => /\ RestartsInLog(s)' = RestartsInLog(s) + 1
               /\ log'[Len(log')] = Call("start", s)
               /\ running' = running]_vars

\* C21 witness: a service whose start failed at start_all_services (its process exited
\* during the startup wait) has been restarted by the first health-check cycle, that
\* start has failed too, and the cycle goes on.
C21_Witness ==
    \E s \in Services :
        /\ pc = "health_heal"
        /\ ~health_cycle_done
        /\ restart_counts[s] = 1
        /\ RestartsInLog(s) = 1
        /\ log[Len(log)] = Call("start", s)
        /\ s \in processes
        /\ s \notin alive
        /\ running

\* The signals of a log, in the order sent.
SignalSeq(l) == SelectSeq(l, LAMBDA c : c.op \in {"SIGTERM", "SIGKILL"})

\* C22: whatever stop_service is called on and whatever the process does, the signals
\* it sends are none, SIGTERM, or SIGTERM then SIGKILL, all to the service it stops;
\* to a running process whose terminate() does not raise it sends SIGTERM first; it
\* sends SIGKILL only to a process still running after the wait, never to one that
\* exited on SIGTERM; and to a process that has already exited, or without a handle,
\* it sends nothing.
C22_GracefulThenForced ==
    pc \in {"health_heal", "patch_heal", "shutdown"} =>
        \A s \in Services, o \in StopOutcomes :
            LET r == StopService(processes, alive, s, o)
                sent == SignalSeq(r.log)
            IN  /\ sent \in {<<>>, <<Call("SIGTERM", s)>>,
                             <<Call("SIGTERM", s), Call("SIGKILL", s)>>}
                /\ (s \in processes /\ s \in alive /\ o # "terminate_raises")
                       => (sent # <<>> /\ sent[1] = Call("SIGTERM", s))
                /\ Len(sent) = 2 <=> (s \in processes /\ s \in alive /\ o = "killed")
                /\ (s \in processes /\ s \in alive /\ o = "terminated")
                       => (sent = <<Call("SIGTERM", s)>> /\ s \notin r.alive)
                /\ (s \notin processes \/ s \notin alive) => sent = <<>>

\* C22 witness: the shutdown sequence has killed a service that outlived the wait after
\* SIGTERM, and has sent the others SIGTERM only.
C22_Witness ==
    /\ pc = "stopped"
    /\ Len(SignalSeq(log)) = Len(service_order) + 1
    /\ \E i \in DOMAIN log : log[i] = Call("SIGKILL", flaky)
    /\ alive = {}

\* The health value the claim gives a probe that failed with request error e.
FailureClass(e) ==
    IF e = "refused" THEN "down" ELSE IF e = "timeout" THEN "timed_out" ELSE "unhealthy"

\* C23: when both requests of a probe of check_system_health fail with a request error,
\* the health value recorded for the service tells the errors apart: down for a refused
\* or reset connection, timed_out for a timeout, unhealthy for any other error.
C23_FailureClassesDistinguished ==
    (/\ pc \in {"health_probe", "report_probe", "health_resources", "report_resources"}
     /\ probe.service # "none"
     /\ probe.response.health_path[1] = "raises"
     /\ probe.response.root_path[1] = "raises")
        => health[probe.service] = FailureClass(probe.response.root_path[2])

\* C24: in an iteration in which the health-check cycle has run, the patch cycle takes
\* its own probe of every service with restart_on_failure and restarts every critical
\* one that probe finds not healthy, also when the health-check cycle has restarted it
\* in this iteration: the patch step then raises its restart count by 1 again, so that
\* the count has risen by 2 in the iteration.
C24_PatchRestartsAgain ==
    [][\A s \in {Current} :
         (/\ pc = "patch_heal"
          /\ LoopStep
          /\ health_check_counter = 0
          /\ cfg[s].critical
          /\ cfg[s].restart_on_failure)
         => /\ probe'.service = s
            /\ ~probe'.healthy =>
                 /\ restart_counts'[s] = restart_counts[s] + 1
                 /\ RestartsInLog(s)' = RestartsInLog(s) + 1
                 /\ RestartsInLog(s) = 1 =>
                       (RestartsInLog(s)' = 2 /\ restart_counts'[s] >= 2)
            /\ probe'.healthy => UNCHANGED <<restart_counts, log>>]_vars

\* C24 witness: the restarts of the health-check cycle and of the patch cycle of one
\* iteration are the only two the service has had, and the patch cycle goes on to its
\* sweep.
C24_Witness ==
    /\ pc = "patch_sweep"
    /\ health_check_counter = 0
    /\ cfg[flaky].critical
    /\ RestartsInLog(flaky) = 2
    /\ restart_counts[flaky] = 2

SweepsInLog(s) == Cardinality({i \in DOMAIN log : log[i] = Call("sweep", s)})

\* C25: the sweep of the patch cycle deletes from the process map exactly the handles
\* whose process is not running, logs each, keeps every handle whose process is
\* running, and changes no restart count, no process and no counter; it is entered
\* only from the last restart step of the patch cycle and is followed only by the
\* resource sample.
C25_StaleHandleSweep ==
    [][/\ (pc = "patch_sweep" /\ pc' # pc) =>
            /\ pc' = "patch_resources"
            /\ mem_sample = <<>>
            /\ \A s \in Services :
                  /\ s \in processes' <=> (s \in processes /\ s \in alive)
                  /\ SweepsInLog(s)' = IF s \in processes /\ s \notin alive THEN 1 ELSE 0
            /\ UNCHANGED <<restart_counts, alive, orphaned, patches_applied, gc_collections>>
            /\ RestartCalls(log') = RestartCalls(log)
       /\ (pc' = "patch_sweep" /\ pc' # pc) => (pc = "patch_heal" /\ LastService)
       /\ (pc' = "patch_resources" /\ pc' # pc) => pc = "patch_sweep"
       /\ pc # "patch_sweep" => \A s \in Services : SweepsInLog(s)' <= SweepsInLog(s)]_vars

\* C25 witness: the sweep has deleted the handle of a process that had exited and kept
\* the handles of the three running ones.
C25_Witness ==
    /\ pc = "patch_resources"
    /\ SweepsInLog(flaky) = 1
    /\ processes = Services \ {flaky}
    /\ processes \subseteq alive

\* C26: in every restart_service call the stop of the old process is complete when the
\* restart count is raised and the new process is launched: whatever the stop and the
\* launch did in that call, the service has no handle and no running process at the
\* point between stop_service and start_service.
C26_StopCompletesBeforeStart ==
    [][\A s \in {Current} :
         (pc \in {"health_heal", "patch_heal"} /\ RestartCalls(log') > RestartCalls(log)) =>
            \A so \in StopOutcomes, go \in StartOutcomes :
                LET stopped == StopService(processes, alive, s, so)
                    r == RestartService(processes, alive, orphaned, restart_counts, s, so, go)
                IN  (/\ log' = log \o r.log
                     /\ processes' = r.processes
                     /\ alive' = r.alive
                     /\ orphaned' = r.orphaned
                     /\ restart_counts' = r.restart_counts)
                    => (s \notin stopped.processes /\ s \notin stopped.alive)]_vars

\* C27: no service ever has two running processes launched by the supervisor: the
\* process whose handle a start replaced and the process that start launched are never
\* running together.
C27_AtMostOneLiveProcess ==
    \A s \in Services : ~(s \in orphaned /\ s \in alive)

\* C28: an activity that raises does not starve the others: in every run in which the
\* supervisor stays running (and the model's restart bound is not met), the patch cycle
\* and the report cycle fire again and again, whatever the health-check cycle raises.
C28_NoStarvation ==
    ([]running /\ []~AtRestartBound)
        => ([]<>(pc = "patch_heal") /\ []<>(pc = "report_probe"))

\* Failed checks at the end of a check history.
RECURSIVE ConsecutiveFailures(_)
ConsecutiveFailures(h) ==
    IF h = <<>> \/ h[Len(h)] THEN 0 ELSE 1 + ConsecutiveFailures(SubSeq(h, 1, Len(h) - 1))

\* C29: the failures field of every agent is the number of failed checks since its last
\* healthy check (0 right after a healthy one, one more for every non-200 answer,
\* timeout, connection error or other error); once an agent has been checked, its
\* status is healthy exactly when its failures is 0; and when a cycle of monitor_loop
\* has checked the agents, it has logged the critical alert for exactly the agents
\* whose failures is at least 3.
C29_FailureCounter ==
    \A a \in Agents :
        /\ agents[a].failures = ConsecutiveFailures(checks[a])
        /\ checks[a] # <<>> => (agents[a].status = "healthy" <=> agents[a].failures = 0)
        /\ mon_pc \in {"save", "sleep"} => (a \in alerts <=> agents[a].failures >= 3)

\* C29 witness: after a healthy check and three failed ones the Terminal Agent stands at
\* three failures and the cycle has alerted for it and not for the healthy SDK Agent.
C29_Witness ==
    /\ mon_pc = "sleep"
    /\ checks["Terminal Agent"] = <<TRUE, FALSE, FALSE, FALSE>>
    /\ agents["Terminal Agent"].failures = 3
    /\ agents["SDK Agent"].status = "healthy"
    /\ alerts = {"Terminal Agent"}

\* C30: shutdown() never runs twice, and however orchestrate() has ended, shutdown() has
\* run once and terminate() has been called on the process of every system for which a
\* process was launched; a disabled system has no process launched and no entry in
\* self.processes.
C30_ShutdownOnEveryExit ==
    /\ shutdown_runs <= 1
    /\ orch_pc \in {"returned", "propagated"} =>
          (shutdown_runs = 1 /\ sys_launched \subseteq terminate_calls)
    /\ \A y \in Systems :
          ~enabled[y] => (y \notin sys_launched /\ y \notin Keys(sys_processes))

\* What orchestrate and shutdown keep wherever an interrupt arrives: shutdown() runs once
\* on the way out, terminate() is called only on stored handles, only launched processes
\* are stored, and a disabled system is neither launched nor stored.
ShutdownRunsOnce ==
    /\ shutdown_runs <= 1
    /\ orch_pc \in {"shutdown", "returned", "propagated"} <=> shutdown_runs = 1
    /\ terminate_calls \subseteq Keys(sys_processes)
    /\ Keys(sys_processes) \subseteq sys_launched
    /\ \A y \in Systems :
          ~enabled[y] => (y \notin sys_launched /\ y \notin Keys(sys_processes))

====
